---- MODULE Spec2Model ----
(***************************************************************************)
(* Biblioteca persistente (05-week/01-session/Biblioteca/app.py).          *)
(*                                                                         *)
(* BaseDatos holds three lists (socios, materiales, prestamos) and mirrors *)
(* them in three JSON files; GestorPrestamos implements registration,      *)
(* lending, return and the fine computation.  Every handler is one action: *)
(* its checks, its mutation and the trailing guardar_datos().              *)
(***************************************************************************)
EXTENDS Integers, Sequences, FiniteSets, TLC

\* ------------------------------------------------------------------------
\* Program constants
DIAS_LIMITE == 7
MULTA_DIA == 1500

\* ------------------------------------------------------------------------
\* Bounds of the model
MaxStock == 2          \* stocks typed at registration range over -1..MaxStock
MaxPrestamos == 2      \* cap on the number of open loans
MaxDiaPrestamo == 1    \* SpecMulta: loans are made on day 0..MaxDiaPrestamo
HorasDia == 24         \* clock resolution: one unit is one hour

Documentos == {"d1", "d2"}
Nombres == {"Ana"}      \* a name is stored and never read: SpecSocios varies it
Titulos == {"t1", "t2"}
Categorias == {"Libro"}
Stocks == (-1)..MaxStock

\* SpecSocios: the documents and names typed at registrar_socio
DocumentosSocios == {"d1", "d2", "d3"}
NombresSocios == {"Ana", "Luis", "Eva"}

\* Clock readings of the main specification (hours since the session began):
\* the start, and two days past the limit of a loan made at the start.
Instantes == {0, (DIAS_LIMITE + 2) * HorasDia}

\* SpecMulta: the clock runs hour by hour up to MaxAhora
MaxAhora == (MaxDiaPrestamo + DIAS_LIMITE + 4) * HorasDia

\* ------------------------------------------------------------------------
\* State
VARIABLES
    socios,             \* db.socios      : Seq of Socio
    materiales,         \* db.materiales  : Seq of Material
    prestamos,          \* db.prestamos   : Seq of Prestamo
    archivoSocios,      \* socios.json    : [existe, datos]
    archivoMateriales,  \* materiales.json
    archivoPrestamos,   \* prestamos.json
    ahora,              \* what datetime.now() returns, in hours
    registrado,         \* history: registrado[i] = stock given when materiales[i] was registered
    prestadoEn,         \* history: prestadoEn[i] = clock reading when prestamos[i] was made
    res,                \* history: the last call and its outcome
    prev                \* history: the call before the last, when the two are
                        \*   registrar_material -> prestar of that title,
                        \*   prestar -> devolver of that pair, or
                        \*   prestar -> devolver -> devolver of that pair

vars == <<socios, materiales, prestamos, archivoSocios, archivoMateriales,
          archivoPrestamos, ahora, registrado, prestadoEn, res, prev>>

memoria == <<socios, materiales, prestamos>>
archivos == <<archivoSocios, archivoMateriales, archivoPrestamos>>

\* ------------------------------------------------------------------------
\* Models (dataclasses): positional constructors
Socio(documento, nombre) == [documento |-> documento, nombre |-> nombre]

Material(titulo, categoria, stock) ==
    [titulo |-> titulo, categoria |-> categoria, stock |-> stock]

Prestamo(doc, titulo, fecha) == [doc |-> doc, titulo |-> titulo, fecha |-> fecha]

CamposSocio == <<"documento", "nombre">>
CamposMaterial == <<"titulo", "categoria", "stock">>
CamposPrestamo == <<"doc", "titulo", "fecha">>

\* ------------------------------------------------------------------------
\* datetime <-> ISO text.  A datetime is a number of hours; its ISO text has
\* a date part and a time-of-day part.
isoformat(t) == [fecha |-> t \div HorasDia, hora |-> t % HorasDia]

fromisoformat(s) == s.fecha * HorasDia + s.hora

timedelta(days) == days * HorasDia

\* timedelta.days of a difference d (in hours): whole days, rounding down
days(d) == d \div HorasDia

\* ------------------------------------------------------------------------
\* JSON documents.  A JSON object is its ordered list of <<key, value>> pairs.
asdict(obj, campos) == [i \in 1..Len(campos) |-> <<campos[i], obj[campos[i]]>>]

Valor(d, k) == d[CHOOSE i \in DOMAIN d : d[i][1] = k][2]

\* Socio(**d), Material(**d), Prestamo(**d)
SocioDe(d) == Socio(Valor(d, "documento"), Valor(d, "nombre"))
MaterialDe(d) == Material(Valor(d, "titulo"), Valor(d, "categoria"), Valor(d, "stock"))
PrestamoDe(d) == Prestamo(Valor(d, "doc"), Valor(d, "titulo"), Valor(d, "fecha"))

Ausente == [existe |-> FALSE, datos |-> <<>>]

\* path.write_text(json.dumps([asdict(x) for x in objs]))
Volcado(objs, campos) ==
    [existe |-> TRUE, datos |-> [i \in 1..Len(objs) |-> asdict(objs[i], campos)]]

\* guardar_datos that forgets prestamos.json
guardar_datos_sin_prestamos(s, m, p) ==
    /\ archivoSocios' = Volcado(s, CamposSocio)
    /\ archivoMateriales' = Volcado(m, CamposMaterial)
    /\ archivoPrestamos' = archivoPrestamos

\* BaseDatos.guardar_datos with the lists s, m, p
guardar_datos(s, m, p) ==
    /\ archivoSocios' = Volcado(s, CamposSocio)
    /\ archivoMateriales' = Volcado(m, CamposMaterial)
    /\ archivoPrestamos' = Volcado(p, CamposPrestamo)

\* The writes of guardar_datos that can be the last one before the process stops
Escrituras == {1, 2}

\* guardar_datos that writes prestamos.json before materiales.json
guardar_datos_hasta_prestamos_antes(k, s, m, p) ==
    /\ archivoSocios' = IF k >= 1 THEN Volcado(s, CamposSocio) ELSE archivoSocios
    /\ archivoPrestamos' = IF k >= 2 THEN Volcado(p, CamposPrestamo) ELSE archivoPrestamos
    /\ archivoMateriales' = archivoMateriales

\* BaseDatos.guardar_datos stopped after its k-th write_text: socios.json is
\* written first, materiales.json second, prestamos.json third
guardar_datos_hasta(k, s, m, p) ==
    /\ archivoSocios' = IF k >= 1 THEN Volcado(s, CamposSocio) ELSE archivoSocios
    /\ archivoMateriales' = IF k >= 2 THEN Volcado(m, CamposMaterial) ELSE archivoMateriales
    /\ archivoPrestamos' = archivoPrestamos

\* BaseDatos.__init__ + cargar_datos: each list is [] unless its file exists
CargaSocios(a) ==
    IF a.existe THEN [i \in 1..Len(a.datos) |-> SocioDe(a.datos[i])] ELSE <<>>
CargaMateriales(a) ==
    IF a.existe THEN [i \in 1..Len(a.datos) |-> MaterialDe(a.datos[i])] ELSE <<>>
CargaPrestamos(a) ==
    IF a.existe THEN [i \in 1..Len(a.datos) |-> PrestamoDe(a.datos[i])] ELSE <<>>

\* ------------------------------------------------------------------------
\* List helpers

\* next(...): the first of the matching positions I, 0 (None) if there is none
Primero(I) == IF I = {} THEN 0 ELSE CHOOSE i \in I : \A j \in I : i <= j

\* list.remove(x): drops the first element equal to x
Quitar(seq, i) == [j \in 1..(Len(seq) - 1) |-> IF j < i THEN seq[j] ELSE seq[j + 1]]

IndiceSocio(s, doc) == Primero({i \in DOMAIN s : s[i].documento = doc})
IndiceMaterial(m, titulo) == Primero({i \in DOMAIN m : m[i].titulo = titulo})
IndicePrestamo(p, doc, titulo) ==
    Primero({i \in DOMAIN p : p[i].doc = doc /\ p[i].titulo = titulo})

\* number of open loans of a title / of a (doc, titulo) pair
AbiertosDe(p, titulo) == Cardinality({i \in DOMAIN p : p[i].titulo = titulo})
Coinciden(p, doc, titulo) ==
    Cardinality({i \in DOMAIN p : p[i].doc = doc /\ p[i].titulo = titulo})

StockDe(m, titulo) ==
    IF IndiceMaterial(m, titulo) = 0 THEN 0 ELSE m[IndiceMaterial(m, titulo)].stock

\* calcular_multa without the test that the limit has passed
calcular_multa_sin_limite(prestamo, hoy) ==
    LET fecha_prestamo == fromisoformat(prestamo.fecha)
        limite == fecha_prestamo + timedelta(DIAS_LIMITE)
    IN  days(hoy - limite) * MULTA_DIA

\* calcular_multa that counts the days from the loan, not from the limit
calcular_multa_desde_prestamo(prestamo, hoy) ==
    LET fecha_prestamo == fromisoformat(prestamo.fecha)
        limite == fecha_prestamo + timedelta(DIAS_LIMITE)
    IN  IF hoy <= limite THEN 0 ELSE days(hoy - fecha_prestamo) * MULTA_DIA

\* ------------------------------------------------------------------------
\* GestorPrestamos.calcular_multa(prestamo) evaluated when the clock reads hoy
calcular_multa(prestamo, hoy) ==
    LET fecha_prestamo == fromisoformat(prestamo.fecha)
        limite == fecha_prestamo + timedelta(DIAS_LIMITE)
    IN  IF hoy <= limite THEN 0 ELSE days(hoy - limite) * MULTA_DIA

\* prestamos_vencidos that puts each overdue loan in front of the ones found
\* before it
RECURSIVE Vencidos_al_reves(_, _)
Vencidos_al_reves(p, hoy) ==
    IF p = <<>> THEN <<>>
    ELSE LET multa == calcular_multa(Head(p), hoy)
         IN  Vencidos_al_reves(Tail(p), hoy)
             \o (IF multa > 0 THEN <<[p |-> Head(p), multa |-> multa]>> ELSE <<>>)

\* GestorPrestamos.prestamos_vencidos: the (loan, fine) pairs with fine > 0
RECURSIVE Vencidos(_, _)
Vencidos(p, hoy) ==
    IF p = <<>> THEN <<>>
    ELSE LET multa == calcular_multa(Head(p), hoy)
         IN  (IF multa > 0 THEN <<[p |-> Head(p), multa |-> multa]>> ELSE <<>>)
             \o Vencidos(Tail(p), hoy)

\* ------------------------------------------------------------------------
\* The record of a call.  A call that succeeds records its arguments and what
\* it found before acting; a call that raises records only which call raised
\* what.
Nula ==
    [op |-> "inicio", out |-> "ok", doc |-> "", titulo |-> "", multa |-> 0,
     stock |-> 0, lista |-> <<>>, stockAntes |-> 0, nAntes |-> 0, cAntes |-> 0]

Llamada(op, doc, titulo, multa, stock, lista) ==
    [op |-> op, out |-> "ok", doc |-> doc, titulo |-> titulo, multa |-> multa,
     stock |-> stock, lista |-> lista,
     stockAntes |-> StockDe(materiales, titulo),
     nAntes |-> Len(prestamos),
     cAntes |-> Coinciden(prestamos, doc, titulo)]

Error(op, out) == [Nula EXCEPT !.op = op, !.out = out]

Exito(r, op) == r.op = op /\ r.out = "ok"

Sigue(op, doc, titulo) ==
    IF op = "prestar" /\ Exito(res, "registrar_material") /\ res.titulo = titulo
    THEN res
    ELSE IF op = "devolver" /\ res.doc = doc /\ res.titulo = titulo
            /\ \/ Exito(res, "prestar")
               \/ Exito(res, "devolver") /\ Exito(prev, "prestar")
    THEN res
    ELSE Nula

\* ------------------------------------------------------------------------
\* Initial state: no file exists, BaseDatos() loads three empty lists
Init ==
    /\ socios = <<>>
    /\ materiales = <<>>
    /\ prestamos = <<>>
    /\ archivoSocios = Ausente
    /\ archivoMateriales = Ausente
    /\ archivoPrestamos = Ausente
    /\ ahora = 0
    /\ registrado = <<>>
    /\ prestadoEn = <<>>
    /\ res = Nula
    /\ prev = Nula

\* A call that raises before touching anything
Falla(op, doc, titulo, out) ==
    /\ res' = Error(op, out)
    /\ prev' = Sigue(op, doc, titulo)
    /\ UNCHANGED <<memoria, archivos, ahora, registrado, prestadoEn>>

\* A query: returns multa / lista and touches nothing
Consulta(op, multa, lista) ==
    /\ res' = [Nula EXCEPT !.op = op, !.multa = multa, !.lista = lista]
    /\ prev' = Nula
    /\ UNCHANGED <<memoria, archivos, ahora, registrado, prestadoEn>>

\* registrar_socio that compares whole records instead of documents
registrar_socio_compara_todo(nombre, doc) ==
    IF \E i \in DOMAIN socios : socios[i] = Socio(doc, nombre)
    THEN Falla("registrar_socio", doc, "", "duplicado")
    ELSE LET s == Append(socios, Socio(doc, nombre))
         IN  /\ socios' = s
             /\ guardar_datos(s, materiales, prestamos)
             /\ res' = Llamada("registrar_socio", doc, "", 0, 0, <<>>)
             /\ prev' = Nula
             /\ UNCHANGED <<materiales, prestamos, ahora, registrado, prestadoEn>>

\* GestorPrestamos.registrar_socio(nombre, doc)
registrar_socio(nombre, doc) ==
    IF \E i \in DOMAIN socios : socios[i].documento = doc
    THEN Falla("registrar_socio", doc, "", "duplicado")
    ELSE LET s == Append(socios, Socio(doc, nombre))
         IN  /\ socios' = s
             /\ guardar_datos(s, materiales, prestamos)
             /\ res' = Llamada("registrar_socio", doc, "", 0, 0, <<>>)
             /\ prev' = Nula
             /\ UNCHANGED <<materiales, prestamos, ahora, registrado, prestadoEn>>

\* registrar_material without the duplicate check
registrar_material_sin_control(titulo, categoria, stock) ==
    LET m == Append(materiales, Material(titulo, categoria, stock))
    IN  /\ materiales' = m
        /\ guardar_datos(socios, m, prestamos)
        /\ registrado' = Append(registrado, stock)
        /\ res' = Llamada("registrar_material", "", titulo, 0, stock, <<>>)
        /\ prev' = Nula
        /\ UNCHANGED <<socios, prestamos, ahora, prestadoEn>>

\* GestorPrestamos.registrar_material(titulo, categoria, stock)
registrar_material(titulo, categoria, stock) ==
    IF \E i \in DOMAIN materiales : materiales[i].titulo = titulo
    THEN Falla("registrar_material", "", titulo, "duplicado")
    ELSE LET m == Append(materiales, Material(titulo, categoria, stock))
         IN  /\ materiales' = m
             /\ guardar_datos(socios, m, prestamos)
             /\ registrado' = Append(registrado, stock)
             /\ res' = Llamada("registrar_material", "", titulo, 0, stock, <<>>)
             /\ prev' = Nula
             /\ UNCHANGED <<socios, prestamos, ahora, prestadoEn>>

\* Variants of prestar: the material looked up before the member
\* (materialPrimero), the stock test against another threshold (umbral), the
\* stock lowered by another amount (descuento), the stock lowered before the
\* stock test (antes).
PrestarVariante(doc, titulo, materialPrimero, umbral, descuento, antes) ==
    LET i == IndiceSocio(socios, doc)
        j == IndiceMaterial(materiales, titulo)
    IN  IF materialPrimero /\ j = 0 THEN Falla("prestar", doc, titulo, "no_material")
        ELSE IF i = 0 THEN Falla("prestar", doc, titulo, "no_socio")
        ELSE IF j = 0 THEN Falla("prestar", doc, titulo, "no_material")
        ELSE LET m == [materiales EXCEPT ![j].stock = @ - descuento]
                 p == Append(prestamos, Prestamo(doc, titulo, isoformat(ahora)))
             IN  IF materiales[j].stock <= umbral
                 THEN /\ materiales' = IF antes THEN m ELSE materiales
                      /\ res' = Error("prestar", "sin_stock")
                      /\ prev' = Sigue("prestar", doc, titulo)
                      /\ UNCHANGED <<socios, prestamos, archivos, ahora, registrado,
                                     prestadoEn>>
                 ELSE /\ Len(prestamos) < MaxPrestamos
                      /\ materiales' = m
                      /\ prestamos' = p
                      /\ guardar_datos(socios, m, p)
                      /\ prestadoEn' = Append(prestadoEn, ahora)
                      /\ res' = Llamada("prestar", doc, titulo, 0, 0, <<>>)
                      /\ prev' = Sigue("prestar", doc, titulo)
                      /\ UNCHANGED <<socios, ahora, registrado>>

prestar_sin_descontar(doc, titulo) == PrestarVariante(doc, titulo, FALSE, 0, 0, FALSE)
prestar_stock_negativo(doc, titulo) == PrestarVariante(doc, titulo, FALSE, -1, 1, FALSE)
prestar_descuenta_antes(doc, titulo) == PrestarVariante(doc, titulo, FALSE, 0, 1, TRUE)
prestar_material_primero(doc, titulo) == PrestarVariante(doc, titulo, TRUE, 0, 1, FALSE)

\* prestar that does not look the member up
prestar_sin_socio(doc, titulo) ==
    LET j == IndiceMaterial(materiales, titulo)
    IN  IF j = 0 THEN Falla("prestar", doc, titulo, "no_material")
        ELSE IF materiales[j].stock <= 0 THEN Falla("prestar", doc, titulo, "sin_stock")
        ELSE LET m == [materiales EXCEPT ![j].stock = @ - 1]
                 p == Append(prestamos, Prestamo(doc, titulo, isoformat(ahora)))
             IN  /\ Len(prestamos) < MaxPrestamos
                 /\ materiales' = m
                 /\ prestamos' = p
                 /\ guardar_datos(socios, m, p)
                 /\ prestadoEn' = Append(prestadoEn, ahora)
                 /\ res' = Llamada("prestar", doc, titulo, 0, 0, <<>>)
                 /\ prev' = Sigue("prestar", doc, titulo)
                 /\ UNCHANGED <<socios, ahora, registrado>>

\* GestorPrestamos.prestar(doc, titulo)
prestar(doc, titulo) ==
    LET i == IndiceSocio(socios, doc)
        j == IndiceMaterial(materiales, titulo)
    IN  IF i = 0 THEN Falla("prestar", doc, titulo, "no_socio")
        ELSE IF j = 0 THEN Falla("prestar", doc, titulo, "no_material")
        ELSE IF materiales[j].stock <= 0 THEN Falla("prestar", doc, titulo, "sin_stock")
        ELSE LET m == [materiales EXCEPT ![j].stock = @ - 1]
                 p == Append(prestamos, Prestamo(doc, titulo, isoformat(ahora)))
             IN  /\ Len(prestamos) < MaxPrestamos
                 /\ materiales' = m
                 /\ prestamos' = p
                 /\ guardar_datos(socios, m, p)
                 /\ prestadoEn' = Append(prestadoEn, ahora)
                 /\ res' = Llamada("prestar", doc, titulo, 0, 0, <<>>)
                 /\ prev' = Sigue("prestar", doc, titulo)
                 /\ UNCHANGED <<socios, ahora, registrado>>

\* devolver that forgets to put the copy back
devolver_sin_reponer(doc, titulo) ==
    LET k == IndicePrestamo(prestamos, doc, titulo)
    IN  IF k = 0 THEN Falla("devolver", doc, titulo, "no_prestamo")
        ELSE LET p == Quitar(prestamos, k)
             IN  /\ prestamos' = p
                 /\ guardar_datos(socios, materiales, p)
                 /\ prestadoEn' = Quitar(prestadoEn, k)
                 /\ res' = Llamada("devolver", doc, titulo,
                                   calcular_multa(prestamos[k], ahora), 0,
                                   <<prestamos[k]>>)
                 /\ prev' = Sigue("devolver", doc, titulo)
                 /\ UNCHANGED <<socios, materiales, ahora, registrado>>

\* devolver that puts the copy back on the first material of the list
devolver_repone_primero(doc, titulo) ==
    LET k == IndicePrestamo(prestamos, doc, titulo)
    IN  IF k = 0 THEN Falla("devolver", doc, titulo, "no_prestamo")
        ELSE LET p == Quitar(prestamos, k)
                 m == [materiales EXCEPT ![1].stock = @ + 1]
             IN  /\ prestamos' = p
                 /\ materiales' = m
                 /\ guardar_datos(socios, m, p)
                 /\ prestadoEn' = Quitar(prestadoEn, k)
                 /\ res' = Llamada("devolver", doc, titulo,
                                   calcular_multa(prestamos[k], ahora), 0,
                                   <<prestamos[k]>>)
                 /\ prev' = Sigue("devolver", doc, titulo)
                 /\ UNCHANGED <<socios, ahora, registrado>>

\* devolver that closes every loan of the pair at once
devolver_todos(doc, titulo) ==
    LET I == {i \in DOMAIN prestamos :
                  prestamos[i].doc = doc /\ prestamos[i].titulo = titulo}
        K == DOMAIN prestamos \ I
        Pos(n) == CHOOSE k \in K : Cardinality({i \in K : i <= k}) = n
    IN  IF I = {} THEN Falla("devolver", doc, titulo, "no_prestamo")
        ELSE LET k == Primero(I)
                 j == IndiceMaterial(materiales, titulo)
                 p == [n \in 1..Cardinality(K) |-> prestamos[Pos(n)]]
                 m == [materiales EXCEPT ![j].stock = @ + 1]
             IN  /\ prestamos' = p
                 /\ materiales' = m
                 /\ guardar_datos(socios, m, p)
                 /\ prestadoEn' = [n \in 1..Cardinality(K) |-> prestadoEn[Pos(n)]]
                 /\ res' = Llamada("devolver", doc, titulo,
                                   calcular_multa(prestamos[k], ahora), 0,
                                   <<prestamos[k]>>)
                 /\ prev' = Sigue("devolver", doc, titulo)
                 /\ UNCHANGED <<socios, ahora, registrado>>

\* devolver that takes the last matching loan instead of the first
devolver_ultimo(doc, titulo) ==
    LET I == {i \in DOMAIN prestamos :
                  prestamos[i].doc = doc /\ prestamos[i].titulo = titulo}
    IN  IF I = {} THEN Falla("devolver", doc, titulo, "no_prestamo")
        ELSE LET k == CHOOSE i \in I : \A j \in I : j <= i
                 j == IndiceMaterial(materiales, titulo)
                 p == Quitar(prestamos, k)
                 m == [materiales EXCEPT ![j].stock = @ + 1]
             IN  /\ prestamos' = p
                 /\ materiales' = m
                 /\ guardar_datos(socios, m, p)
                 /\ prestadoEn' = Quitar(prestadoEn, k)
                 /\ res' = Llamada("devolver", doc, titulo,
                                   calcular_multa(prestamos[k], ahora), 0,
                                   <<prestamos[k]>>)
                 /\ prev' = Sigue("devolver", doc, titulo)
                 /\ UNCHANGED <<socios, ahora, registrado>>

\* GestorPrestamos.devolver(doc, titulo)
devolver(doc, titulo) ==
    LET k == IndicePrestamo(prestamos, doc, titulo)
    IN  IF k = 0 THEN Falla("devolver", doc, titulo, "no_prestamo")
        ELSE LET prestamo == prestamos[k]
                 q == Primero({i \in DOMAIN prestamos : prestamos[i] = prestamo})
                 p == Quitar(prestamos, q)
                 j == IndiceMaterial(materiales, titulo)
             IN  IF j = 0
                 THEN \* next(...) raises StopIteration after the removal
                      /\ prestamos' = p
                      /\ prestadoEn' = Quitar(prestadoEn, q)
                      /\ res' = Error("devolver", "StopIteration")
                      /\ prev' = Sigue("devolver", doc, titulo)
                      /\ UNCHANGED <<socios, materiales, archivos, ahora, registrado>>
                 ELSE LET m == [materiales EXCEPT ![j].stock = @ + 1]
                      IN  /\ prestamos' = p
                          /\ materiales' = m
                          /\ guardar_datos(socios, m, p)
                          /\ prestadoEn' = Quitar(prestadoEn, q)
                          /\ res' = Llamada("devolver", doc, titulo,
                                            calcular_multa(prestamo, ahora), 0,
                                            <<prestamo>>)
                          /\ prev' = Sigue("devolver", doc, titulo)
                          /\ UNCHANGED <<socios, ahora, registrado>>

\* GestorPrestamos.calcular_multa(db.prestamos[i])
CalcularMulta(i) ==
    Consulta("calcular_multa", calcular_multa(prestamos[i], ahora), <<prestamos[i]>>)

\* GestorPrestamos.prestamos_activos()
prestamos_activos == Consulta("prestamos_activos", 0, prestamos)

\* GestorPrestamos.prestamos_vencidos()
prestamos_vencidos == Consulta("prestamos_vencidos", 0, Vencidos(prestamos, ahora))

\* A new session: BaseDatos() starts from empty lists and loads the files
cargar_datos ==
    /\ socios' = CargaSocios(archivoSocios)
    /\ materiales' = CargaMateriales(archivoMateriales)
    /\ prestamos' = CargaPrestamos(archivoPrestamos)
    /\ res' = Error("cargar_datos", "ok")
    /\ prev' = Nula
    /\ UNCHANGED <<archivos, ahora, registrado, prestadoEn>>

\* Time passes between calls: datetime.now() next reads t
Reloj(t) ==
    /\ t > ahora
    /\ ahora' = t
    /\ UNCHANGED <<memoria, archivos, registrado, prestadoEn, res, prev>>

\* ------------------------------------------------------------------------
\* The process stopping inside guardar_datos

\* the process of the last call is still running
Viva == res.out # "caida"

\* registrar_socio whose guardar_datos stops after the k-th write
registrar_socio_caida(nombre, doc, k) ==
    /\ Viva
    /\ ~\E i \in DOMAIN socios : socios[i].documento = doc
    /\ LET s == Append(socios, Socio(doc, nombre))
       IN  /\ socios' = s
           /\ guardar_datos_hasta(k, s, materiales, prestamos)
    /\ res' = Error("registrar_socio", "caida")
    /\ prev' = Nula
    /\ UNCHANGED <<materiales, prestamos, ahora, registrado, prestadoEn>>

\* registrar_material whose guardar_datos stops after the k-th write
registrar_material_caida(titulo, categoria, stock, k) ==
    /\ Viva
    /\ ~\E i \in DOMAIN materiales : materiales[i].titulo = titulo
    /\ LET m == Append(materiales, Material(titulo, categoria, stock))
       IN  /\ materiales' = m
           /\ guardar_datos_hasta(k, socios, m, prestamos)
    /\ registrado' = Append(registrado, stock)
    /\ res' = Error("registrar_material", "caida")
    /\ prev' = Nula
    /\ UNCHANGED <<socios, prestamos, ahora, prestadoEn>>

\* prestar whose guardar_datos stops after the k-th write
prestar_caida(doc, titulo, k) ==
    LET i == IndiceSocio(socios, doc)
        j == IndiceMaterial(materiales, titulo)
    IN  /\ Viva
        /\ i # 0 /\ j # 0
        /\ materiales[j].stock > 0
        /\ Len(prestamos) < MaxPrestamos
        /\ LET m == [materiales EXCEPT ![j].stock = @ - 1]
               p == Append(prestamos, Prestamo(doc, titulo, isoformat(ahora)))
           IN  /\ materiales' = m
               /\ prestamos' = p
               /\ guardar_datos_hasta(k, socios, m, p)
        /\ prestadoEn' = Append(prestadoEn, ahora)
        /\ res' = Error("prestar", "caida")
        /\ prev' = Nula
        /\ UNCHANGED <<socios, ahora, registrado>>

\* devolver whose guardar_datos stops after the k-th write
devolver_caida(doc, titulo, k) ==
    LET q == IndicePrestamo(prestamos, doc, titulo)
        j == IndiceMaterial(materiales, titulo)
    IN  /\ Viva
        /\ q # 0 /\ j # 0
        /\ materiales[j].stock <= MaxStock
        /\ LET m == [materiales EXCEPT ![j].stock = @ + 1]
               p == Quitar(prestamos, q)
           IN  /\ materiales' = m
               /\ prestamos' = p
               /\ guardar_datos_hasta(k, socios, m, p)
        /\ prestadoEn' = Quitar(prestadoEn, q)
        /\ res' = Error("devolver", "caida")
        /\ prev' = Nula
        /\ UNCHANGED <<socios, ahora, registrado>>

\* The next session after a stop: BaseDatos() loads whatever the files hold
reanudar ==
    /\ ~Viva
    /\ socios' = CargaSocios(archivoSocios)
    /\ materiales' = CargaMateriales(archivoMateriales)
    /\ prestamos' = CargaPrestamos(archivoPrestamos)
    /\ registrado' = SubSeq(registrado, 1, Len(CargaMateriales(archivoMateriales)))
    /\ prestadoEn' = [i \in 1..Len(CargaPrestamos(archivoPrestamos)) |->
                          fromisoformat(CargaPrestamos(archivoPrestamos)[i].fecha)]
    /\ res' = Error("cargar_datos", "ok")
    /\ prev' = res
    /\ UNCHANGED <<archivos, ahora>>

\* The documents and initial stocks typed in the sessions that can stop
DocumentosCaida == {"d1"}
StocksCaida == {1, MaxStock}

NextCaida ==
    \/ \E nombre \in Nombres, doc \in DocumentosCaida :
           Viva /\ registrar_socio(nombre, doc)
    \/ \E titulo \in Titulos, categoria \in Categorias, stock \in StocksCaida :
           Viva /\ registrar_material(titulo, categoria, stock)
    \/ \E doc \in DocumentosCaida, titulo \in Titulos : Viva /\ prestar(doc, titulo)
    \/ \E doc \in DocumentosCaida, titulo \in Titulos : Viva /\ devolver(doc, titulo)
    \/ \E nombre \in Nombres, doc \in DocumentosCaida, k \in Escrituras :
           registrar_socio_caida(nombre, doc, k)
    \/ \E titulo \in Titulos, categoria \in Categorias, stock \in StocksCaida,
          k \in Escrituras : registrar_material_caida(titulo, categoria, stock, k)
    \/ \E doc \in DocumentosCaida, titulo \in Titulos, k \in Escrituras :
           prestar_caida(doc, titulo, k)
    \/ \E doc \in DocumentosCaida, titulo \in Titulos, k \in Escrituras :
           devolver_caida(doc, titulo, k)
    \/ reanudar

SpecCaida == Init /\ [][NextCaida]_vars

Next ==
    \/ \E nombre \in Nombres, doc \in Documentos : registrar_socio(nombre, doc)
    \/ \E titulo \in Titulos, categoria \in Categorias, stock \in Stocks :
           registrar_material(titulo, categoria, stock)
    \/ \E doc \in Documentos, titulo \in Titulos : prestar(doc, titulo)
    \/ \E doc \in Documentos, titulo \in Titulos : devolver(doc, titulo)
    \/ cargar_datos
    \/ \E t \in Instantes : Reloj(t)

\* The operations that change the collections, sessions and the clock; the
\* queries, which change nothing, run under SpecMulta.
Spec == Init /\ [][Next]_vars

\* ------------------------------------------------------------------------
\* The queries, and the fine as a function of the loan's timestamp and the
\* clock: one loan, made at any hour of days 0..MaxDiaPrestamo, and the clock
\* running on from there hour by hour.
InitMulta ==
    \E T \in 0..((MaxDiaPrestamo + 1) * HorasDia - 1) :
        LET s == <<Socio("d1", "Ana")>>
            m == <<Material("t1", "Libro", 0)>>
            p == <<Prestamo("d1", "t1", isoformat(T))>>
        IN  /\ socios = s
            /\ materiales = m
            /\ prestamos = p
            /\ archivoSocios = Volcado(s, CamposSocio)
            /\ archivoMateriales = Volcado(m, CamposMaterial)
            /\ archivoPrestamos = Volcado(p, CamposPrestamo)
            /\ ahora = T
            /\ registrado = <<1>>
            /\ prestadoEn = <<T>>
            /\ res = [Nula EXCEPT !.op = "prestar", !.doc = "d1", !.titulo = "t1",
                                  !.stockAntes = 1]
            /\ prev = Nula

RelojHora ==
    /\ ahora < MaxAhora
    /\ ahora' = ahora + 1
    /\ UNCHANGED <<memoria, archivos, registrado, prestadoEn, res, prev>>

NextMulta ==
    \/ RelojHora
    \/ \E i \in DOMAIN prestamos : CalcularMulta(i)
    \/ prestamos_activos
    \/ prestamos_vencidos

SpecMulta == InitMulta /\ [][NextMulta]_vars

\* ------------------------------------------------------------------------
\* The member registry alone, with more documents and names
NextSocios ==
    \/ \E nombre \in NombresSocios, doc \in DocumentosSocios :
           registrar_socio(nombre, doc)
    \/ cargar_datos

SpecSocios == Init /\ [][NextSocios]_vars

\* ------------------------------------------------------------------------
\* Sessions that mix every operation with the three reports.  The clock is
\* read at the start, one day later, and one hour past the 8th and 9th day.
InstantesInformes ==
    {0, HorasDia, (DIAS_LIMITE + 1) * HorasDia + 1, (DIAS_LIMITE + 2) * HorasDia + 1}
TitulosInformes == {"t1"}
StocksInformes == {MaxStock}

NextInformes ==
    \/ \E nombre \in Nombres, doc \in Documentos : registrar_socio(nombre, doc)
    \/ \E titulo \in TitulosInformes, categoria \in Categorias, stock \in StocksInformes :
           registrar_material(titulo, categoria, stock)
    \/ \E doc \in Documentos, titulo \in TitulosInformes : prestar(doc, titulo)
    \/ \E doc \in Documentos, titulo \in TitulosInformes : devolver(doc, titulo)
    \/ \E i \in DOMAIN prestamos : CalcularMulta(i)
    \/ prestamos_activos
    \/ prestamos_vencidos
    \/ cargar_datos
    \/ \E t \in InstantesInformes : Reloj(t)

SpecInformes == Init /\ [][NextInformes]_vars

\* ========================================================================
\* Properties

\* C1: starting from empty collections, for every Material the current stock
\* plus the number of open loans of its title equals the stock given when it
\* was registered.
C1_ConservacionStock ==
    \A i \in DOMAIN materiales :
        materiales[i].stock + AbiertosDe(prestamos, materiales[i].titulo) = registrado[i]

\* both copies of a material registered with stock 2 are on loan, and a
\* third prestar was refused
C1_Witness ==
    /\ res.out = "sin_stock"
    /\ \E i \in DOMAIN materiales :
           /\ registrado[i] = 2
           /\ materiales[i].stock = 0
           /\ AbiertosDe(prestamos, materiales[i].titulo) = 2

\* C2: every Material in the collection has stock >= 0, whatever integer the
\* caller gave at registration.
C2_StockNoNegativo == \A i \in DOMAIN materiales : materiales[i].stock >= 0

\* C3 as stated: a successful prestar(doc, titulo) followed by
\* devolver(doc, titulo) restores the stock and the number of loans, and one
\* more devolver(doc, titulo) then fails with "no_prestamo".
C3_DevolverDeshace(d, t) ==
    (Exito(res, "prestar") /\ res.doc = d /\ res.titulo = t)
        => /\ res'.out = "ok"
           /\ StockDe(materiales', t) = res.stockAntes
           /\ Len(prestamos') = Len(prestamos) - 1
           /\ Len(prestamos') = res.nAntes

C3_TrasPrestarDevolver(d, t) ==
    Exito(res, "devolver") /\ res.doc = d /\ res.titulo = t /\ Exito(prev, "prestar")

C3_Original ==
    [][\A d \in Documentos, t \in Titulos :
          (res'.op = "devolver" /\ devolver(d, t)) =>
              /\ C3_DevolverDeshace(d, t)
              /\ C3_TrasPrestarDevolver(d, t) => res'.out = "no_prestamo"]_vars

\* C3 amended: the second devolver fails with "no_prestamo" when no loan of
\* the pair was open before the prestar, and succeeds otherwise.
C3_PrestarDevolver ==
    [][\A d \in Documentos, t \in Titulos :
          (res'.op = "devolver" /\ devolver(d, t)) =>
              /\ C3_DevolverDeshace(d, t)
              /\ C3_TrasPrestarDevolver(d, t) =>
                     res'.out = IF prev.cAntes = 0 THEN "no_prestamo" ELSE "ok"]_vars

\* prestar, devolver and a second devolver of the same pair have run, and the
\* second devolver failed.
C3_Witness ==
    /\ res.op = "devolver" /\ res.out = "no_prestamo"
    /\ Exito(prev, "devolver") /\ prev.cAntes = 1
    /\ StockDe(materiales, prev.titulo) = prev.stockAntes + 1

\* C4 as stated: after registrar_material(titulo, categoria, stock) with
\* stock >= 0, prestar(doc, titulo) for a registered member lowers the stock
\* by exactly 1 and adds exactly one loan.
C4_TrasRegistrar(d, t) ==
    /\ Exito(res, "registrar_material") /\ res.titulo = t
    /\ \E i \in DOMAIN socios : socios[i].documento = d

C4_UnPrestamoMas(d, t) ==
    /\ res'.out = "ok"
    /\ StockDe(materiales', t) = res.stock - 1
    /\ Len(prestamos') = Len(prestamos) + 1
    /\ prestamos'[Len(prestamos')].doc = d
    /\ prestamos'[Len(prestamos')].titulo = t
    /\ SubSeq(prestamos', 1, Len(prestamos)) = prestamos

C4_Original ==
    [][\A d \in Documentos, t \in Titulos :
          (res'.op = "prestar" /\ C4_TrasRegistrar(d, t) /\ res.stock >= 0
           /\ prestar(d, t))
              => C4_UnPrestamoMas(d, t)]_vars

\* C4 amended: that holds for stock >= 1; with stock = 0 the prestar fails
\* with "sin_stock" and changes neither the stock nor the loans.
C4_RegistrarPrestar ==
    [][\A d \in Documentos, t \in Titulos :
          (res'.op = "prestar" /\ C4_TrasRegistrar(d, t) /\ prestar(d, t)) =>
              /\ res.stock >= 1 => C4_UnPrestamoMas(d, t)
              /\ res.stock = 0 =>
                     /\ res'.out = "sin_stock"
                     /\ UNCHANGED <<materiales, prestamos>>]_vars

\* registrar_material with stock 2 and then a successful prestar of that title
C4_Witness ==
    /\ Exito(res, "prestar")
    /\ Exito(prev, "registrar_material") /\ prev.stock = 2
    /\ StockDe(materiales, prev.titulo) = 1

\* C5: the fine is a function of the loan's timestamp T and the clock alone:
\* 0 while now <= T + 7 days, then 1500 per whole day past T + 7 days (0 at
\* T + 7 days + 1 hour, 3000 at T + 9 days); computing it changes no collection.
MultaEsperada(T, now) ==
    IF now <= T + 7 * HorasDia THEN 0
    ELSE ((now - (T + 7 * HorasDia)) \div HorasDia) * 1500

C5_MultaPura ==
    [][\A i \in DOMAIN prestamos :
          (res'.op = "calcular_multa" /\ CalcularMulta(i)) =>
              /\ res'.multa = MultaEsperada(prestadoEn[i], ahora)
              /\ ahora = prestadoEn[i] + 7 * HorasDia + 1 => res'.multa = 0
              /\ ahora = prestadoEn[i] + 9 * HorasDia => res'.multa = 3000
              /\ UNCHANGED <<memoria, archivos>>]_vars

\* the fine was computed nine days after the loan
C5_Witness ==
    /\ res.op = "calcular_multa" /\ res.multa = 3000
    /\ ahora = prestadoEn[1] + 9 * HorasDia

\* C6: a call that ends in an error leaves the three collections and the
\* three documents as they were; prestar against stock 0 is such a call.
C6_ErrorSinEfecto ==
    [][/\ res'.out # "ok" => UNCHANGED <<memoria, archivos>>
       /\ \A d \in Documentos, t \in Titulos :
              (/\ res'.op = "prestar"
               /\ \E i \in DOMAIN socios : socios[i].documento = d
               /\ \E j \in DOMAIN materiales :
                      materiales[j].titulo = t /\ materiales[j].stock = 0
               /\ prestar(d, t))
                  => res'.out = "sin_stock" /\ UNCHANGED <<materiales, prestamos>>]_vars

\* prestar failed against a material that loans had brought down to stock 0
C6_Witness ==
    /\ res.op = "prestar" /\ res.out = "sin_stock"
    /\ \E j \in DOMAIN materiales : materiales[j].stock = 0 /\ registrado[j] > 0

\* C7: registrar_socio with a document already in the collection fails with
\* "duplicado" whatever the name, and leaves the Member collection as it was.
C7_SocioDuplicado ==
    [][\A n \in NombresSocios, d \in DocumentosSocios :
          (/\ res'.op = "registrar_socio"
           /\ \E i \in DOMAIN socios : socios[i].documento = d
           /\ registrar_socio(n, d))
              => /\ res'.out = "duplicado"
                 /\ Len(socios') = Len(socios)
                 /\ socios' = socios]_vars

\* a duplicate registration was refused with every document registered,
\* under different names
C7_Witness ==
    /\ res.op = "registrar_socio" /\ res.out = "duplicado"
    /\ Len(socios) = Cardinality(DocumentosSocios)
    /\ socios[1].nombre # socios[2].nombre

\* C8: at every operation boundary loading the three documents gives exactly
\* the three collections in memory, in the same order.
C8_PersistidoIgual ==
    /\ CargaSocios(archivoSocios) = socios
    /\ CargaMateriales(archivoMateriales) = materiales
    /\ CargaPrestamos(archivoPrestamos) = prestamos

\* member, material of stock 2 and one loan, then a new session loaded them
C8_Witness ==
    /\ Exito(res, "cargar_datos")
    /\ Len(socios) = 1 /\ Len(prestamos) = 1
    /\ Len(materiales) = 1 /\ materiales[1].stock = 1 /\ registrado[1] = 2

\* C9: no two Members share a document and no two Materials a title;
\* registrar_socio fails with "duplicado" exactly when the document is
\* present, registrar_material exactly when the title is present.
C9_ClavesUnicas ==
    [][/\ \A i, j \in DOMAIN socios' :
              socios'[i].documento = socios'[j].documento => i = j
       /\ \A i, j \in DOMAIN materiales' :
              materiales'[i].titulo = materiales'[j].titulo => i = j
       /\ \A n \in Nombres, d \in Documentos :
              (res'.op = "registrar_socio" /\ registrar_socio(n, d)) =>
                  ((res'.out = "duplicado") <=>
                       (d \in {socios[i].documento : i \in DOMAIN socios}))
       /\ \A t \in Titulos, c \in Categorias, k \in Stocks :
              (res'.op = "registrar_material" /\ registrar_material(t, c, k)) =>
                  ((res'.out = "duplicado") <=>
                       (t \in {materiales[i].titulo : i \in DOMAIN materiales}))]_vars

\* both documents and both titles are registered and a duplicate was refused
C9_Witness ==
    /\ res.op = "registrar_material" /\ res.out = "duplicado"
    /\ Len(socios) = 2 /\ Len(materiales) = 2

\* C10: prestar checks the member first, then the material, then the stock,
\* and otherwise lowers the stock by 1 and appends one loan at the end.
C10_Esperado(d, t) ==
    IF ~ \E i \in DOMAIN socios : socios[i].documento = d THEN "no_socio"
    ELSE IF ~ \E j \in DOMAIN materiales : materiales[j].titulo = t THEN "no_material"
    ELSE IF \E j \in DOMAIN materiales :
                materiales[j].titulo = t /\ materiales[j].stock <= 0 THEN "sin_stock"
    ELSE "ok"

C10_OrdenPrestar ==
    [][\A d \in Documentos, t \in Titulos :
          (res'.op = "prestar" /\ prestar(d, t)) =>
              /\ res'.out = C10_Esperado(d, t)
              /\ res'.out = "ok" =>
                     /\ StockDe(materiales', t) = StockDe(materiales, t) - 1
                     /\ Len(prestamos') = Len(prestamos) + 1
                     /\ SubSeq(prestamos', 1, Len(prestamos)) = prestamos
                     /\ prestamos'[Len(prestamos')].doc = d
                     /\ prestamos'[Len(prestamos')].titulo = t]_vars

\* prestar was refused for the member while no material exists either
C10_Witness ==
    /\ res.op = "prestar" /\ res.out = "no_socio"
    /\ materiales = <<>>
    /\ Len(socios) = 1

\* C11: when several open loans match (doc, titulo), devolver removes the
\* earliest-inserted one, leaves the others in place and in order, and
\* returns the fine of the removed loan, which has the oldest timestamp of
\* the matches.
C11_Coincide(i, d, t) == prestamos[i].doc = d /\ prestamos[i].titulo = t

C11_PrimeroInsertado ==
    [][\A d \in Documentos, t \in Titulos :
          (res'.op = "devolver" /\ Coinciden(prestamos, d, t) >= 1 /\ devolver(d, t)) =>
              \E k \in DOMAIN prestamos :
                  /\ C11_Coincide(k, d, t)
                  /\ \A i \in 1..(k - 1) : ~C11_Coincide(i, d, t)
                  /\ Len(prestamos') = Len(prestamos) - 1
                  /\ \A i \in 1..(k - 1) : prestamos'[i] = prestamos[i]
                  /\ \A i \in (k + 1)..Len(prestamos) : prestamos'[i - 1] = prestamos[i]
                  /\ res'.multa = MultaEsperada(prestadoEn[k], ahora)
                  /\ \A i \in DOMAIN prestamos :
                         C11_Coincide(i, d, t) => prestadoEn[k] <= prestadoEn[i]]_vars

\* two loans of one pair were open, made at different times; devolver took
\* the older one, fined 3000, and the younger one is still open
C11_Witness ==
    /\ Exito(res, "devolver") /\ res.cAntes = 2 /\ res.multa = 3000
    /\ Len(prestamos) = 1
    /\ prestamos[1].doc = res.doc /\ prestamos[1].titulo = res.titulo
    /\ prestadoEn[1] = ahora

\* C12: a stop between the writes of guardar_datos leaves the documents
\* mutually inconsistent exactly when it falls after materiales.json and
\* before prestamos.json: in prestar the stock on file is one lower while the
\* loans on file lack the new loan, in devolver the stock on file is one
\* higher while the returned loan is still on file; the next session loads
\* the files as they are, so its stock plus open loans differs from the
\* registered stock.
C12_Suma(m, p, t) == StockDe(m, t) + AbiertosDe(p, t)

C12_SumaArchivos(t) ==
    C12_Suma(CargaMateriales(archivoMateriales), CargaPrestamos(archivoPrestamos), t)

C12_EscriturasParciales ==
    [][/\ \A d \in DocumentosCaida, t \in Titulos :
            /\ (res'.out = "caida" /\ prestar_caida(d, t, 2)) =>
                  /\ StockDe(CargaMateriales(archivoMateriales'), t) = StockDe(materiales, t) - 1
                  /\ CargaPrestamos(archivoPrestamos') = prestamos
                  /\ C12_SumaArchivos(t)' = C12_Suma(materiales, prestamos, t) - 1
            /\ (res'.out = "caida" /\ devolver_caida(d, t, 2)) =>
                  /\ StockDe(CargaMateriales(archivoMateriales'), t) = StockDe(materiales, t) + 1
                  /\ CargaPrestamos(archivoPrestamos') = prestamos
                  /\ Coinciden(CargaPrestamos(archivoPrestamos'), d, t) >= 1
                  /\ C12_SumaArchivos(t)' = C12_Suma(materiales, prestamos, t) + 1
            /\ (res'.out = "caida" /\ (prestar_caida(d, t, 1) \/ devolver_caida(d, t, 1))) =>
                  /\ CargaMateriales(archivoMateriales') = materiales
                  /\ CargaPrestamos(archivoPrestamos') = prestamos
       /\ (res'.op = "cargar_datos" /\ reanudar) =>
             /\ res'.out = "ok"
             /\ socios' = CargaSocios(archivoSocios)
             /\ materiales' = CargaMateriales(archivoMateriales)
             /\ prestamos' = CargaPrestamos(archivoPrestamos)
             /\ \A t \in Titulos :
                    C12_Suma(materiales', prestamos', t) = C12_SumaArchivos(t)]_vars

\* a session loaded after a stop in which one title has a copy missing (stop
\* in prestar) and another has a copy too many with its loan still open (stop
\* in devolver)
C12_Witness ==
    /\ res.op = "cargar_datos" /\ res.out = "ok" /\ prev.out = "caida"
    /\ \E i, j \in DOMAIN materiales :
          /\ materiales[i].stock + AbiertosDe(prestamos, materiales[i].titulo)
                = registrado[i] - 1
          /\ AbiertosDe(prestamos, materiales[i].titulo) = 0
          /\ materiales[j].stock + AbiertosDe(prestamos, materiales[j].titulo)
                = registrado[j] + 1
          /\ AbiertosDe(prestamos, materiales[j].titulo) = 1

\* C13: prestamos_vencidos returns exactly the open loans whose fine at the
\* current time is above 0, each paired with that fine, in the order of the
\* loan list, and changes no collection; a loan past due by less than one
\* full day has fine 0 and is not in the report.
C13_ConMulta == {i \in DOMAIN prestamos : MultaEsperada(prestadoEn[i], ahora) > 0}

C13_Posicion(n) ==
    CHOOSE k \in C13_ConMulta : Cardinality({i \in C13_ConMulta : i <= k}) = n

C13_InformeVencidos ==
    [][(res'.op = "prestamos_vencidos" /\ prestamos_vencidos) =>
          /\ Len(res'.lista) = Cardinality(C13_ConMulta)
          /\ \A n \in 1..Len(res'.lista) :
                 /\ res'.lista[n].p = prestamos[C13_Posicion(n)]
                 /\ res'.lista[n].multa = MultaEsperada(prestadoEn[C13_Posicion(n)], ahora)
          /\ \A i \in DOMAIN prestamos :
                 (ahora - prestadoEn[i] < (7 + 1) * HorasDia) =>
                     /\ calcular_multa(prestamos[i], ahora) = 0
                     /\ \A n \in 1..Len(res'.lista) : res'.lista[n].p # prestamos[i]
          /\ UNCHANGED <<memoria, archivos>>]_vars

\* two loans are open, the report holds the first with its fine of 1500 and
\* leaves out the second, which is one hour past its limit
C13_Witness ==
    /\ res.op = "prestamos_vencidos"
    /\ Len(prestamos) = 2
    /\ res.lista = <<[p |-> prestamos[1], multa |-> 1500]>>
    /\ ahora = prestadoEn[2] + 7 * HorasDia + 1

\* C14: the loan list changes only by a successful prestar, which appends
\* exactly one loan, or a successful devolver, which removes exactly one;
\* registrar_socio, registrar_material, calcular_multa, prestamos_activos and
\* prestamos_vencidos leave it as it is; the loans that stay keep their
\* fields, and a loan that was returned comes back only through a new prestar.
C14_SoloLeen ==
    {"registrar_socio", "registrar_material", "calcular_multa",
     "prestamos_activos", "prestamos_vencidos"}

C14_CicloPrestamo ==
    [][/\ prestamos' # prestamos =>
              \/ /\ Exito(res', "prestar")
                 /\ prestamos' = Append(prestamos,
                        Prestamo(res'.doc, res'.titulo, isoformat(ahora)))
              \/ /\ Exito(res', "devolver")
                 /\ \E k \in DOMAIN prestamos :
                        /\ prestamos[k].doc = res'.doc
                        /\ prestamos[k].titulo = res'.titulo
                        /\ prestamos' = Quitar(prestamos, k)
       /\ res' # res =>
              /\ res'.op \in C14_SoloLeen => prestamos' = prestamos
              /\ Exito(res', "prestar") => Len(prestamos') = Len(prestamos) + 1
              /\ Exito(res', "devolver") => Len(prestamos') = Len(prestamos) - 1
              /\ res'.out # "ok" => prestamos' = prestamos]_vars

\* a pair had two loans open at once and a devolver has closed one of them
C14_Witness ==
    /\ Exito(res, "devolver") /\ res.nAntes = 2 /\ res.cAntes = 2
    /\ Len(prestamos) = 1
    /\ prestamos[1].doc = res.doc /\ prestamos[1].titulo = res.titulo

\* C15: socios and materiales only grow at the end: no record is removed or
\* moved, documento, nombre, titulo and categoria of a record never change,
\* and the only field that changes is the stock of the material with the
\* title given to prestar (one less) or to devolver (one more).
C15_SoloCrecen ==
    [][/\ Len(socios') >= Len(socios)
       /\ \A i \in DOMAIN socios : socios'[i] = socios[i]
       /\ Len(socios') > Len(socios) =>
              /\ Exito(res', "registrar_socio")
              /\ Len(socios') = Len(socios) + 1
       /\ Len(materiales') >= Len(materiales)
       /\ Len(materiales') > Len(materiales) =>
              /\ Exito(res', "registrar_material")
              /\ Len(materiales') = Len(materiales) + 1
       /\ \A i \in DOMAIN materiales :
              /\ materiales'[i].titulo = materiales[i].titulo
              /\ materiales'[i].categoria = materiales[i].categoria
              /\ materiales'[i].stock # materiales[i].stock =>
                     /\ materiales[i].titulo = res'.titulo
                     /\ \/ /\ Exito(res', "prestar")
                           /\ materiales'[i].stock = materiales[i].stock - 1
                        \/ /\ Exito(res', "devolver")
                           /\ materiales'[i].stock = materiales[i].stock + 1]_vars

\* both titles are registered and a copy of the second one has come back:
\* its stock went up by one and the first title kept its stock
C15_Witness ==
    /\ Exito(res, "devolver")
    /\ Len(materiales) = 2 /\ Len(socios) = 2
    /\ materiales[2].titulo = res.titulo
    /\ materiales[2].stock = res.stockAntes + 1
    /\ materiales[1].stock = registrado[1]

\* C16: from empty collections, every open loan names the documento of a
\* registered member and the titulo of a registered material; so the
\* material lookup that devolver makes after removing the loan never fails,
\* and devolver never leaves a loan removed without the stock raised.
C16_Referencias ==
    \A i \in DOMAIN prestamos :
        /\ \E s \in DOMAIN socios : socios[s].documento = prestamos[i].doc
        /\ \E m \in DOMAIN materiales : materiales[m].titulo = prestamos[i].titulo

C16_IntegridadReferencial ==
    [][/\ C16_Referencias'
       /\ res'.out # "StopIteration"
       /\ \A d \in Documentos, t \in Titulos :
              (res'.op = "devolver" /\ devolver(d, t)
                  /\ Len(prestamos') < Len(prestamos)) =>
                  /\ res'.out = "ok"
                  /\ StockDe(materiales', t) = StockDe(materiales, t) + 1
                  /\ CargaPrestamos(archivoPrestamos') = prestamos'
                  /\ CargaMateriales(archivoMateriales') = materiales']_vars

\* a devolver has found its material and raised the stock while a loan of
\* another member and another title is still open
C16_Witness ==
    /\ Exito(res, "devolver")
    /\ StockDe(materiales, res.titulo) = res.stockAntes + 1
    /\ Len(prestamos) = 1
    /\ prestamos[1].doc # res.doc /\ prestamos[1].titulo # res.titulo
    /\ C16_Referencias

\* C17: the fine of a loan is never negative and never goes down as the
\* clock advances: a loan with a fine above 0 is in the overdue report after
\* every step, with a fine at least as high, unless the step is the devolver
\* that removes that loan.
C17_Multa(i) == calcular_multa(prestamos[i], ahora)

C17_MultaMonotona ==
    [][\A i \in DOMAIN prestamos :
          /\ C17_Multa(i) >= 0
          /\ C17_Multa(i) > 0 =>
                 \/ /\ Exito(res', "devolver")
                    /\ prestamos[i].doc = res'.doc
                    /\ prestamos[i].titulo = res'.titulo
                    /\ prestamos' = Quitar(prestamos, i)
                 \/ \E n \in DOMAIN Vencidos(prestamos', ahora') :
                        /\ Vencidos(prestamos', ahora')[n].p = prestamos[i]
                        /\ Vencidos(prestamos', ahora')[n].multa >= C17_Multa(i)]_vars

\* the report lists two loans: the older one, fined 1500 a day before, now
\* at 3000, and the younger one at 1500
C17_Witness ==
    /\ res.op = "prestamos_vencidos"
    /\ Len(prestamos) = 2
    /\ Len(res.lista) = 2
    /\ res.lista[1].multa = 3000 /\ res.lista[2].multa = 1500
    /\ MultaEsperada(prestadoEn[1], ahora - HorasDia) = 1500

====
